---- MODULE Spec2Model ----
(***************************************************************************)
(* Model of src/api/server.py: the FastAPI service that forwards queries   *)
(* to an Ollama backend (OllamaClient), the /api/analyze orchestration     *)
(* (analyze_query), the health flow (check_health) and the step parser     *)
(* (extract_steps).                                                        *)
(*                                                                         *)
(* Strings are sequences of atoms.  An atom is one character ("1", ".",    *)
(* "\n") or, where the code never looks inside it, an opaque chunk of      *)
(* literal text ("Ollama error: ").  Concatenation (f-strings, +) is \o.   *)
(* Optional values (Python None) are records with a `some` flag.           *)
(* Timestamps (datetime.now()) are left out: no handler reads them.        *)
(***************************************************************************)
EXTENDS Integers, Sequences, FiniteSets, TLC

VARIABLES
    phase,      \* lifespan position: "init", "starting", "serving", "stopped"
    closes,     \* number of ollama_client.close() calls made so far
    hpc,        \* per check_health call: "idle", "waiting" (GET /api/tags in flight), "done"
    hcaller,    \* per call: who runs it: "lifespan", "health", "models", or "none"
    hreply,     \* per call: the backend reply to its GET /api/tags
    health,     \* per call: the dict check_health returned to its caller
    hhttp,      \* per call: the HTTP response of GET /health or GET /api/models
    tags_gets,  \* number of GET /api/tags requests issued so far
    last_health,\* history: the dict the most recent check_health returned
    rpc,        \* per request: "idle", "awaiting" (POST /api/generate in flight), "done"
    request,    \* per request: the inbound request body
    sent,       \* per request: the payloads POSTed to /api/generate, in order
    reply,      \* per request: the backend reply to its POST
    result,     \* per request: dict returned by generate_response
    http,       \* per request: the HTTP response of the endpoint
    x_text,     \* input of a stand-alone extract_steps call
    x_out       \* its return value

vars == <<phase, closes, hpc, hcaller, hreply, health, hhttp, tags_gets, last_health,
          rpc, request, sent, reply, result, http, x_text, x_out>>

lifeVars == <<phase, closes>>
healthVars == <<hpc, hcaller, hreply, health, hhttp, tags_gets, last_health>>
reqVars == <<rpc, request, sent, reply, result, http>>
extractVars == <<x_text, x_out>>

(***************************************************************************)
(* Bounds of the model.                                                    *)
(***************************************************************************)
NumReqs == 2          \* request slots of the concurrent specification
MaxHealthGets == 2    \* cap on GET /api/tags requests of one behaviour
MaxPieces == 4        \* fragments concatenated into an extract_steps input
MaxModels == 2        \* entries of a backend model listing

Reqs == 1..NumReqs

\* The calls of check_health in the order they begin: the first is that of
\* lifespan, the others those of GET /health and GET /api/models.  Each has
\* its own coroutine, so any number of them wait for the backend at once.
HealthCalls == 1..(MaxHealthGets + 1)

(***************************************************************************)
(* Python str and list primitives used by the code.                        *)
(***************************************************************************)
Range(s) == {s[i] : i \in 1..Len(s)}

\* str.strip() with no argument strips these (the ASCII ones that occur here).
Whitespace == {" ", "\t", "\n", "\r", "\f"}

\* str.isdigit(): true of the decimal digits and also of other characters
\* with the Unicode Digit property, e.g. superscript two (U+00B2, written
\* "sup2" here) and circled one (U+2460, "circ1"); str.isdecimal() is false
\* of those two.
DecimalDigits == {"0", "1", "2", "3", "4", "5", "6", "7", "8", "9"}
OtherDigits == {"sup2", "circ1"}
isdigit(c) == c \in DecimalDigits \cup OtherDigits

UpperLetters == <<"A","B","C","D","E","F","G","H","I","J","K","L","M",
                  "N","O","P","Q","R","S","T","U","V","W","X","Y","Z">>
LowerLetters == <<"a","b","c","d","e","f","g","h","i","j","k","l","m",
                  "n","o","p","q","r","s","t","u","v","w","x","y","z">>

lower_char(c) ==
    IF \E i \in 1..Len(UpperLetters) : UpperLetters[i] = c
    THEN LowerLetters[CHOOSE i \in 1..Len(UpperLetters) : UpperLetters[i] = c]
    ELSE c

\* str.lower()
lower(s) == [i \in 1..Len(s) |-> lower_char(s[i])]

\* str.find(ch) + 1 for a one-character ch: index of the first occurrence, 0 if none.
find(s, ch) ==
    IF ch \in Range(s)
    THEN CHOOSE i \in 1..Len(s) : s[i] = ch /\ \A j \in 1..(i - 1) : s[j] # ch
    ELSE 0

\* s.split(sep): all the pieces between occurrences of sep.
RECURSIVE split(_, _)
split(s, sep) ==
    LET i == find(s, sep)
    IN  IF i = 0 THEN <<s>>
        ELSE <<SubSeq(s, 1, i - 1)>> \o split(SubSeq(s, i + 1, Len(s)), sep)

\* s.rsplit(sep, 1)[-1]: what follows the last sep.
rsplit1_last(s, sep) ==
    IF sep \in Range(s)
    THEN LET i == CHOOSE k \in 1..Len(s) : s[k] = sep /\ \A j \in (k + 1)..Len(s) : s[j] # sep
         IN  SubSeq(s, i + 1, Len(s))
    ELSE s

\* s.split(sep, 1)[-1]: what follows the first sep, or s when it has none.
split1_last(s, sep) ==
    LET i == find(s, sep)
    IN  IF i = 0 THEN s ELSE SubSeq(s, i + 1, Len(s))

\* s.strip()
strip(s) ==
    LET keep == {i \in 1..Len(s) : s[i] \notin Whitespace}
    IN  IF keep = {} THEN <<>>
        ELSE SubSeq(s, CHOOSE i \in keep : \A j \in keep : i <= j,
                       CHOOSE i \in keep : \A j \in keep : i >= j)

\* s.startswith(p)
startswith(s, p) == Len(s) >= Len(p) /\ SubSeq(s, 1, Len(p)) = p

\* needle in hay, for str operands
str_in(needle, hay) ==
    \E i \in 0..(Len(hay) - Len(needle)) : SubSeq(hay, i + 1, i + Len(needle)) = needle

\* bool(s) of a str: the empty string is falsy.
truthy(s) == Len(s) > 0

\* Optional values.
None == [some |-> FALSE, v |-> <<>>]
Some(x) == [some |-> TRUE, v |-> x]

(***************************************************************************)
(* extract_steps (server.py 378-399).                                      *)
(***************************************************************************)
STEP == <<"s", "t", "e", "p">>

\* line 385: the test that makes a stripped line a step line
is_step_line(line) ==
    line # <<>> /\ (isdigit(line[1]) \/ startswith(lower(line), STEP))

\* lines 387-394: the cleaned text of a step line
clean_step(line) ==
    IF isdigit(line[1])
    THEN strip(split1_last(strip(split1_last(line, ".")), ")"))
    ELSE IF startswith(lower(line), STEP)
         THEN strip(split1_last(line, ":"))
         ELSE line

\* lines 383-397: the for loop, steps being the list built so far
RECURSIVE extract_loop(_, _)
extract_loop(lines, steps) ==
    IF lines = <<>> THEN steps
    ELSE LET line == strip(Head(lines))
         IN  IF is_step_line(line)
             THEN LET clean == clean_step(line)
                  IN  extract_loop(Tail(lines),
                                   IF clean # <<>> THEN Append(steps, clean) ELSE steps)
             ELSE extract_loop(Tail(lines), steps)

\* extract_steps ending in `return steps`: an empty list instead of None.
extract_steps_returns_list(text) == Some(extract_loop(split(text, "\n"), <<>>))

\* line 399: `steps if steps else None`
extract_steps(text) ==
    LET steps == extract_loop(split(text, "\n"), <<>>)
    IN  IF steps # <<>> THEN Some(steps) ELSE None

(***************************************************************************)
(* Settings (server.py 32-39), with their default values.                  *)
(***************************************************************************)
max_image_size == 10485760
default_model ==
    <<"g", "e", "m", "m", "a", "3", ":", "4", "b", "-", "i", "n", "s", "t", "r", "u", "c",
      "t", "-", "q", "4", "_", "0">>

(***************************************************************************)
(* The backend's side of the wire.  A reply to a request is a transport    *)
(* failure (no response: connection refused, timeout) or an HTTP response  *)
(* with a status, its raw body text and what response.json() makes of the  *)
(* body.                                                                   *)
(***************************************************************************)
NoJson == [t |-> "invalid", response |-> [t |-> "absent", s |-> <<>>],
           models |-> [t |-> "absent", entries |-> <<>>]]

\* A JSON value that is not an object (a list, a string, a number).
JsonArray == [NoJson EXCEPT !.t = "array"]

\* The generate endpoint's {"response": <text>, ...}
JsonResponse(text) == [NoJson EXCEPT !.t = "object", !.response = [t |-> "str", s |-> text]]

\* An object whose "response" is null.
JsonNullResponse == [NoJson EXCEPT !.t = "object", !.response = [t |-> "null", s |-> <<>>]]

\* An object with neither "response" nor "models".
JsonEmptyObject == [NoJson EXCEPT !.t = "object"]

\* The tags endpoint's {"models": [<entry>, ...]}
JsonModels(entries) ==
    [NoJson EXCEPT !.t = "object", !.models = [t |-> "list", entries |-> entries]]

\* An object whose "models" is null.
JsonNullModels == [NoJson EXCEPT !.t = "object", !.models = [t |-> "null", entries |-> <<>>]]

\* Entries of a model listing: {"name": <str>}, {} and {"name": <number>}
\* (the number stands in the list of names as the atom "<int>").
Named(name) == [t |-> "named", name |-> name]
Unnamed == [t |-> "unnamed", name |-> <<>>]
NumberNamed == [t |-> "number", name |-> <<"<int>">>]

\* httpx raised before any response arrived; text is str(e).
TransportError(kind, text) ==
    [kind |-> kind, status |-> 0, text |-> text, json |-> NoJson]

HttpReply(status, text, json) ==
    [kind |-> "http", status |-> status, text |-> text, json |-> json]

NoReply == [kind |-> "none", status |-> 0, text |-> <<>>, json |-> NoJson]

\* httpx Response.is_success, which raise_for_status() tests (lines 131, 173).
is_success(status) == 200 <= status /\ status <= 299

\* str(status_code) inside an f-string
status_str(status) == <<ToString(status)>>

(***************************************************************************)
(* OllamaClient (server.py 120-191).                                       *)
(***************************************************************************)
NoHealth == [status |-> "none", error |-> None, models |-> <<>>, gemma_available |-> FALSE]

GEMMA3 == <<"g", "e", "m", "m", "a", "3">>

\* A family test that ignores case: "gemma3" in model.lower()
gemma_available_any_case(models) ==
    \E i \in 1..Len(models) : str_in(GEMMA3, lower(models[i]))

\* line 139: any("gemma3" in model for model in models)
gemma_available(models) == \E i \in 1..Len(models) : str_in(GEMMA3, models[i])

\* lines 141-148: the except branch, e being the exception caught
unhealthy(e) ==
    [status |-> "unhealthy", error |-> Some(e), models |-> <<>>, gemma_available |-> FALSE]

\* str(e) of the exceptions the try block of check_health can raise
HTTP_STATUS_ERROR == <<"HTTPStatusError">>
JSON_DECODE_ERROR == <<"JSONDecodeError">>
ATTRIBUTE_ERROR == <<"AttributeError">>
TYPE_ERROR == <<"TypeError">>
KEY_ERROR == <<"'name'">>

\* line 134: [model["name"] for model in data.get("models", [])]
model_names(entries) == [i \in 1..Len(entries) |-> entries[i].name]

\* line 139 raises TypeError when any() reaches a name that is not a str
\* before it has found a match (any() stops at the first match).
gemma_test_raises(entries) ==
    \E i \in 1..Len(entries) :
        /\ entries[i].t = "number"
        /\ \A j \in 1..(i - 1) : ~str_in(GEMMA3, entries[j].name)

\* check_health with `except httpx.HTTPError` in place of `except Exception`:
\* what the parsing of the body raises reaches the caller.
check_health_narrow_except(r) ==
    IF r.kind # "http" THEN unhealthy(r.text)
    ELSE IF ~is_success(r.status) THEN unhealthy(HTTP_STATUS_ERROR \o status_str(r.status))
    ELSE IF r.json.t # "object" \/ r.json.models.t = "null"
            \/ \E i \in 1..Len(r.json.models.entries) : r.json.models.entries[i].t # "named"
    THEN [status |-> "raised", error |-> None, models |-> <<>>, gemma_available |-> FALSE]
    ELSE [status |-> "healthy", error |-> None,
          models |-> model_names(r.json.models.entries),
          gemma_available |-> gemma_available(model_names(r.json.models.entries))]

\* lines 129-148: check_health from the reply r to its GET /api/tags on
check_health(r) ==
    IF r.kind # "http" THEN unhealthy(r.text)
    ELSE IF ~is_success(r.status) THEN unhealthy(HTTP_STATUS_ERROR \o status_str(r.status))
    ELSE IF r.json.t = "invalid" THEN unhealthy(JSON_DECODE_ERROR)
    ELSE IF r.json.t # "object" THEN unhealthy(ATTRIBUTE_ERROR)
    ELSE IF r.json.models.t = "null" THEN unhealthy(TYPE_ERROR)
    ELSE LET entries == r.json.models.entries
         IN  IF \E i \in 1..Len(entries) : entries[i].t = "unnamed"
             THEN unhealthy(KEY_ERROR)
             ELSE IF gemma_test_raises(entries) THEN unhealthy(TYPE_ERROR)
             ELSE [status |-> "healthy", error |-> None,
                   models |-> model_names(entries),
                   gemma_available |-> gemma_available(model_names(entries))]

NoResult == [success |-> FALSE, data |-> NoJson, error |-> <<>>, returned |-> FALSE]

\* line 164: the decoding options sent when the caller gives none
DEFAULT_OPTIONS == [temperature |-> "0.3", top_p |-> "0.9", repeat_penalty |-> "1.1"]

\* lines 159-168: the payload of the POST /api/generate; images is None or a list
generate_payload(model, prompt, images) ==
    [model |-> model, prompt |-> prompt, stream |-> FALSE, options |-> DEFAULT_OPTIONS,
     images |-> IF images.some /\ images.v # <<>> THEN images ELSE None]

\* line 183: f"Ollama error: {e.response.status_code} {e.response.text}"
ollama_error(r) == <<"Ollama error: ">> \o status_str(r.status) \o <<" ">> \o r.text

\* generate_response without the raise_for_status() of line 173: an error
\* status goes on to response.json().
generate_response_no_raise_for_status(r) ==
    IF r.kind # "http"
    THEN [success |-> FALSE, data |-> NoJson, error |-> r.text, returned |-> TRUE]
    ELSE IF r.json.t = "invalid"
    THEN [success |-> FALSE, data |-> NoJson, error |-> JSON_DECODE_ERROR, returned |-> TRUE]
    ELSE [success |-> TRUE, data |-> r.json, error |-> <<>>, returned |-> TRUE]

\* lines 173-187: what generate_response returns, r being the reply to its POST
generate_response(r) ==
    IF r.kind # "http"
    THEN [success |-> FALSE, data |-> NoJson, error |-> r.text, returned |-> TRUE]
    ELSE IF ~is_success(r.status)
    THEN [success |-> FALSE, data |-> NoJson, error |-> ollama_error(r), returned |-> TRUE]
    ELSE IF r.json.t = "invalid"
    THEN [success |-> FALSE, data |-> NoJson, error |-> JSON_DECODE_ERROR, returned |-> TRUE]
    ELSE [success |-> TRUE, data |-> r.json, error |-> <<>>, returned |-> TRUE]

(***************************************************************************)
(* Request and response bodies (server.py 46-116).                         *)
(***************************************************************************)
\* A base64 image string is kept by its length alone: [some, len].
NoImage == [some |-> FALSE, len |-> 0]
Image(n) == [some |-> TRUE, len |-> n]

\* bool(request.image): None and the empty string are falsy.
image_truthy(image) == image.some /\ image.len > 0

GENERAL == <<"general">>
DEFAULT_QUERY == <<"What can I do on this screen?">>

\* An AnalysisRequest as the handler sees it, defaults applied (lines 60-72).
AnalysisRequest(query, context, image, model) ==
    [query |-> query, context |-> IF context.some THEN context.v ELSE GENERAL,
     image |-> image, model |-> model]

\* A stand-in for a run of FILLER_CHARS characters of a long text.
FILLER == "<run of characters>"
FILLER_CHARS == 500

\* The number of characters an atom of a text stands for.
chars(a) ==
    IF a = FILLER THEN FILLER_CHARS
    ELSE IF a \in OtherDigits THEN 1
    ELSE Len(a)

\* len(text), in characters.
RECURSIVE str_len(_)
str_len(text) == IF text = <<>> THEN 0 ELSE chars(Head(text)) + str_len(Tail(text))

min_length == 1
max_length == 1000

\* Field(min_length=1, max_length=1000) of AnalysisRequest.query (lines 60-62).
query_valid(query) == str_len(query) >= min_length /\ str_len(query) <= max_length

NoBody == [guidance |-> <<>>, steps |-> None, confidence |-> "", model_used |-> <<>>,
           context |-> <<>>]

NoHttp == [status |-> 0, detail |-> <<>>, body |-> NoBody]

\* raise HTTPException(status_code, detail)
HTTPException(status_code, detail) ==
    [status |-> status_code, detail |-> detail, body |-> NoBody]

\* An exception no handler catches: Starlette answers 500.
UNHANDLED == <<"Internal Server Error">>
Unhandled == [status |-> 500, detail |-> UNHANDLED, body |-> NoBody]

\* A body of POST /api/analyze that AnalysisRequest refuses never reaches the
\* handler: FastAPI answers 422.
STRING_TOO_SHORT == <<"String should have at least 1 character">>
STRING_TOO_LONG == <<"String should have at most 1000 characters">>
RequestInvalid(query) ==
    [status |-> 422,
     detail |-> IF str_len(query) < min_length THEN STRING_TOO_SHORT ELSE STRING_TOO_LONG,
     body |-> NoBody]

(***************************************************************************)
(* analyze_query (server.py 288-358).                                      *)
(***************************************************************************)
\* A size test that also rejects an image exactly at the ceiling.
image_too_large_at_ceiling(image) == image_truthy(image) /\ image.len >= max_image_size

\* line 297: the size test
image_too_large(image) == image_truthy(image) /\ image.len > max_image_size

\* A handler that ignores the override: always settings.default_model.
model_for_default_only(req) == default_model

\* line 304: request.model or settings.default_model
model_for(req) == IF req.model.some /\ truthy(req.model.v) THEN req.model.v ELSE default_model

PROMPT_HEAD == <<"You are a patient, helpful AI assistant ... Current app context: ">>
SCREENSHOT_SENTENCE ==
    <<"The user has provided a screenshot of their phone screen for you to analyze.">>
PROMPT_QUESTION == <<"\n\nUser's question: \"">>
PROMPT_TAIL == <<"\"\n\nPlease provide step-by-step guidance that is easy to follow. ...">>

\* lines 307-322: the f-string
system_prompt(req) ==
    PROMPT_HEAD \o req.context \o <<"\n">>
        \o (IF image_truthy(req.image) THEN SCREENSHOT_SENTENCE ELSE <<>>)
        \o PROMPT_QUESTION \o req.query \o PROMPT_TAIL

\* line 325: [request.image] if request.image else None
images_for(req) == IF image_truthy(req.image) THEN Some(<<req.image>>) ELSE None

IMAGE_TOO_LARGE == <<"Image too large">>
FAILED_TO_GENERATE == <<"Failed to generate response: ">>
INTERNAL_SERVER_ERROR == <<"Internal server error">>

\* A handler without `except HTTPException: raise`: the generic except
\* swallows the HTTPException of line 333.
generation_failed_reclassified(res) == HTTPException(500, INTERNAL_SERVER_ERROR)

\* lines 332-336: the HTTPException raised when generate_response failed
generation_failed(res) == HTTPException(500, FAILED_TO_GENERATE \o res.error)

\* lines 353-358: any other exception becomes a generic 500
internal_error == HTTPException(500, INTERNAL_SERVER_ERROR)

\* lines 332-358: analyze_query from the return of generate_response on
analyze_finish(req, res) ==
    IF ~res.success THEN generation_failed(res)
    ELSE IF res.data.t # "object" THEN internal_error     \* .get on a non-dict
    ELSE IF res.data.response.t = "null" THEN internal_error  \* None.split
    ELSE LET response_text == res.data.response.s           \* "" when absent
         IN  [status |-> 200, detail |-> <<>>,
              body |-> [guidance |-> response_text,
                        steps |-> extract_steps(response_text),
                        confidence |-> "0.9",
                        model_used |-> model_for(req),
                        context |-> req.context]]

\* The AnalysisRequest an inbound body becomes: the body of POST /api/analyze
\* as it is, that of POST /api/screenshot through analyze_screenshot
\* (lines 370-372), with the defaults of ScreenshotRequest (lines 78-83).
analysis_request(body) ==
    IF body.endpoint = "screenshot"
    THEN AnalysisRequest(IF body.query.some THEN body.query.v ELSE DEFAULT_QUERY,
                         body.context, body.image, None)
    ELSE AnalysisRequest(body.query.v, body.context, body.image, body.model)

NoRequest == [endpoint |-> "none", query |-> None, context |-> None, image |-> NoImage,
              model |-> None]

(***************************************************************************)
(* Inputs: inbound request bodies and backend replies.                     *)
(***************************************************************************)
Q1 == <<"How do I change my WhatsApp profile picture?">>
Q2 == <<"How do I call my son?">>
WHATSAPP == <<"whatsapp">>
LLAVA == <<"l", "l", "a", "v", "a">>
GEMMA3_4B == <<"g", "e", "m", "m", "a", "3", ":", "4", "b">>

\* Queries of max_length and of max_length + 1 characters.
Q_MAX == <<FILLER, FILLER>>
Q_LONG == <<FILLER, FILLER, "?">>

\* Texts a model may answer with.
TEXT_NUMBERED ==
    <<"1", ".", " ", "O", "p", "e", "n", " ", "a", "p", "p", "\n", "2", ".",
      " ", "T", "a", "p", " ", "i", "c", "o", "n", "\n">>
TEXT_STEPS ==
    <<"S", "t", "e", "p", " ", "1", ":", " ", "D", "o", " ", "X", "\n", "S",
      "t", "e", "p", " ", "2", ":", " ", "D", "o", " ", "Y">>
TEXT_SENTENCE ==
    <<"J", "u", "s", "t", " ", "a", " ", "s", "e", "n", "t", "e", "n", "c",
      "e", ".">>
TEXT_EMPTY == <<>>

AnalyzeBody(query, context, image, model) ==
    [endpoint |-> "analyze", query |-> Some(query), context |-> context,
     image |-> image, model |-> model]

ScreenshotBody(image, query, context) ==
    [endpoint |-> "screenshot", query |-> query, context |-> context,
     image |-> image, model |-> None]

Images == {NoImage, Image(0), Image(1), Image(max_image_size - 1), Image(max_image_size),
           Image(max_image_size + 1), Image(2 * max_image_size)}

\* Every body the single-request specifications submit.
Bodies ==
    {AnalyzeBody(Q1, c, i, m) :
        c \in {None, Some(WHATSAPP)}, i \in Images, m \in {None, Some(<<>>), Some(LLAVA)}}
    \cup
    {ScreenshotBody(i, q, c) :
        i \in Images \ {NoImage}, q \in {None, Some(Q2), Some(<<>>)},
        c \in {None, Some(WHATSAPP)}}
    \cup
    {AnalyzeBody(q, None, i, None) :
        q \in {<<>>, Q_MAX, Q_LONG}, i \in {NoImage, Image(max_image_size + 1)}}
    \cup
    {ScreenshotBody(i, Some(q), None) :
        q \in {Q_MAX, Q_LONG}, i \in {Image(1), Image(max_image_size + 1)}}

\* The bodies of the concurrent specification.
FewBodies ==
    {AnalyzeBody(Q1, None, NoImage, None),
     AnalyzeBody(Q2, Some(WHATSAPP), Image(max_image_size), Some(LLAVA)),
     AnalyzeBody(Q1, Some(WHATSAPP), Image(max_image_size + 1), None)}

\* The bodies of the specification that runs one POST /api/screenshot beside
\* one POST /api/analyze.
PairImages == {Image(0), Image(max_image_size), Image(max_image_size + 1)}

PairScreenshotBodies ==
    {ScreenshotBody(i, q, c) :
        i \in PairImages, q \in {None, Some(Q2), Some(<<>>), Some(Q_MAX), Some(Q_LONG)},
        c \in {None, Some(WHATSAPP)}}

PairAnalyzeBodies ==
    {AnalyzeBody(q, c, i, None) :
        q \in {DEFAULT_QUERY, Q2, <<>>, Q_MAX, Q_LONG},
        c \in {None, Some(GENERAL), Some(WHATSAPP)},
        i \in PairImages}

CONNECT_ERROR == <<"All connection attempts failed">>
\* str(e) of httpx.ReadTimeout is the empty text.
READ_TIMEOUT == <<>>
UPSTREAM_BODY == <<"{\"error\":\"model 'llava' not found\"}">>
RAW_JSON == <<"<json text>">>
RAW_HTML == <<"<html>Bad gateway</html>">>

\* Replies to POST /api/generate.
GenerateReplies ==
    {TransportError("connect", CONNECT_ERROR), TransportError("timeout", READ_TIMEOUT)}
    \cup {HttpReply(st, b, NoJson) : st \in {301, 404, 500, 503}, b \in {UPSTREAM_BODY, <<>>}}
    \cup {HttpReply(st, RAW_HTML, NoJson) : st \in {200, 204}}
    \cup {HttpReply(200, RAW_JSON, j) : j \in {JsonArray, JsonEmptyObject, JsonNullResponse}}
    \cup {HttpReply(st, RAW_JSON, JsonResponse(t)) :
            st \in {200, 201},
            t \in {TEXT_NUMBERED, TEXT_STEPS, TEXT_SENTENCE, TEXT_EMPTY}}

FewGenerateReplies ==
    {TransportError("connect", CONNECT_ERROR),
     HttpReply(200, RAW_JSON, JsonResponse(TEXT_NUMBERED)),
     HttpReply(200, RAW_JSON, JsonResponse(TEXT_STEPS))}

\* Model names a backend may list.
ModelNames ==
    {GEMMA3_4B, LLAVA, <<"G", "e", "m", "m", "a", "3">>, <<"g", "e", "m", "m", "a">>,
     <<"x", "g", "e", "m", "m", "a", "3">>, <<"g", "e", "m", "m", "a", "2">>}

ModelEntries == {Named(n) : n \in ModelNames} \cup {Unnamed, NumberNamed}

RECURSIVE SeqsUpTo(_, _)
SeqsUpTo(S, n) ==
    IF n = 0 THEN {<<>>}
    ELSE LET shorter == SeqsUpTo(S, n - 1)
         IN  shorter \cup {Append(q, e) : q \in shorter, e \in S}

\* Replies to GET /api/tags.
TagsReplies ==
    {TransportError("connect", CONNECT_ERROR), TransportError("timeout", READ_TIMEOUT)}
    \cup {HttpReply(st, RAW_HTML, NoJson) : st \in {200, 404, 500}}
    \cup {HttpReply(200, RAW_JSON, j) : j \in {JsonArray, JsonEmptyObject, JsonNullModels}}
    \cup {HttpReply(200, RAW_JSON, JsonModels(es)) : es \in SeqsUpTo(ModelEntries, MaxModels)}

FewTagsReplies ==
    {TransportError("connect", CONNECT_ERROR),
     HttpReply(200, RAW_JSON, JsonModels(<<Named(GEMMA3_4B)>>))}

\* Inputs of extract_steps: texts put together from these fragments.
Fragments ==
    {<<"1">>, <<"sup2">>, <<"s", "t", "e", "p">>, <<"S", "t", "e", "p">>,
     <<".">>, <<")">>, <<":">>, <<" ">>, <<"\n">>, <<"a">>}

RECURSIVE Texts(_)
Texts(n) ==
    IF n = 0 THEN {<<>>}
    ELSE LET shorter == Texts(n - 1)
         IN  shorter \cup {t \o f : t \in shorter, f \in Fragments}

NotRun == [run |-> FALSE, ret |-> None]

(***************************************************************************)
(* Actions.                                                                *)
(***************************************************************************)
\* A lifespan that starts serving without waiting for its health check.
LifespanStartup_serves_at_once ==
    /\ phase = "init"
    /\ phase' = "serving"
    /\ hpc' = [hpc EXCEPT ![tags_gets + 1] = "waiting"]
    /\ hcaller' = [hcaller EXCEPT ![tags_gets + 1] = "lifespan"]
    /\ tags_gets' = tags_gets + 1
    /\ UNCHANGED <<closes, hreply, health, hhttp, last_health>>
    /\ UNCHANGED <<reqVars, extractVars>>

\* lifespan, lines 200-206: startup runs check_health before serving.
LifespanStartup ==
    /\ phase = "init"
    /\ phase' = "starting"
    /\ hpc' = [hpc EXCEPT ![tags_gets + 1] = "waiting"]
    /\ hcaller' = [hcaller EXCEPT ![tags_gets + 1] = "lifespan"]
    /\ tags_gets' = tags_gets + 1
    /\ UNCHANGED <<closes, hreply, health, hhttp, last_health>>
    /\ UNCHANGED <<reqVars, extractVars>>

\* GET /health (line 249) and GET /api/models (line 262) up to the await.
HealthStart(caller) ==
    /\ phase = "serving"
    /\ tags_gets < MaxHealthGets + 1
    /\ hpc' = [hpc EXCEPT ![tags_gets + 1] = "waiting"]
    /\ hcaller' = [hcaller EXCEPT ![tags_gets + 1] = caller]
    /\ tags_gets' = tags_gets + 1
    /\ UNCHANGED <<lifeVars, hreply, health, hhttp, last_health>>
    /\ UNCHANGED <<reqVars, extractVars>>

\* HealthResponse.available_models is list[str] (line 104): pydantic refuses
\* a name that is not a str.
all_str(models) == \A i \in 1..Len(models) : models[i] # NumberNamed.name

\* lines 249-256: GET /health from the return of check_health on.  When
\* HealthResponse(...) raises ValidationError nothing catches it: 500.
health_check(h) ==
    IF all_str(h.models)
    THEN [status |-> 200, server_status |-> "healthy", ollama_status |-> h.status,
          models |-> h.models, gemma_available |-> h.gemma_available, detail |-> <<>>]
    ELSE [status |-> 500, server_status |-> "", ollama_status |-> "", models |-> <<>>,
          gemma_available |-> FALSE, detail |-> UNHANDLED]

SERVICE_UNAVAILABLE == <<"Ollama service not available">>

\* lines 264-274: the answer of GET /api/models (a plain dict, not validated)
get_models(h) ==
    IF h.status # "healthy"
    THEN [status |-> 503, server_status |-> "", ollama_status |-> "", models |-> <<>>,
          gemma_available |-> FALSE, detail |-> SERVICE_UNAVAILABLE]
    ELSE [status |-> 200, server_status |-> "", ollama_status |-> "", models |-> h.models,
          gemma_available |-> h.gemma_available, detail |-> <<>>]

NoHealthHttp == [status |-> 0, server_status |-> "", ollama_status |-> "", models |-> <<>>,
                 gemma_available |-> FALSE, detail |-> <<>>]

\* f with the entry of call h set to v and the entries of the calls answered
\* before it set to blank: their callers have returned, nothing of them is kept.
answered(f, h, v, blank) ==
    [o \in HealthCalls |-> IF o = h THEN v ELSE IF hpc[o] = "done" THEN blank ELSE f[o]]

\* The backend answers the GET /api/tags of call h: check_health returns and
\* its caller runs on (lifespan to its yield, the endpoints to their return).
\* There is no await between the two, so the caller of any call answered
\* earlier has returned by now.
HealthFinish(h, r) ==
    /\ hpc[h] = "waiting"
    /\ hpc' = answered(hpc, h, "done", "idle")
    /\ hcaller' = answered(hcaller, h, hcaller[h], "none")
    /\ hreply' = answered(hreply, h, r, NoReply)
    /\ health' = answered(health, h, check_health(r), NoHealth)
    /\ last_health' = check_health(r)
    /\ hhttp' = answered(hhttp, h,
                    CASE hcaller[h] = "health" -> health_check(check_health(r))
                      [] hcaller[h] = "models" -> get_models(check_health(r))
                      [] OTHER -> NoHealthHttp,
                    NoHealthHttp)
    /\ phase' = IF hcaller[h] = "lifespan" THEN "serving" ELSE phase
    /\ UNCHANGED <<closes, tags_gets>>
    /\ UNCHANGED <<reqVars, extractVars>>

\* The caller is done with the health dict: nothing of it is kept.
HealthReturn(h) ==
    /\ hpc[h] = "done"
    /\ hpc' = [hpc EXCEPT ![h] = "idle"]
    /\ hcaller' = [hcaller EXCEPT ![h] = "none"]
    /\ hreply' = [hreply EXCEPT ![h] = NoReply]
    /\ health' = [health EXCEPT ![h] = NoHealth]
    /\ hhttp' = [hhttp EXCEPT ![h] = NoHealthHttp]
    /\ UNCHANGED <<lifeVars, tags_gets, last_health>>
    /\ UNCHANGED <<reqVars, extractVars>>

\* A handler that tests the image size only after it has called the backend.
AnalyzeStart_late_size_test(r, body) ==
    /\ phase = "serving" /\ rpc[r] = "idle"
    /\ request' = [request EXCEPT ![r] = body]
    /\ LET req == analysis_request(body)
       IN  /\ sent' = [sent EXCEPT ![r] = Append(@,
                          generate_payload(model_for(req), system_prompt(req),
                                           images_for(req)))]
           /\ IF image_truthy(req.image) /\ req.image.len > max_image_size
              THEN /\ rpc' = [rpc EXCEPT ![r] = "done"]
                   /\ http' = [http EXCEPT ![r] = HTTPException(413, IMAGE_TOO_LARGE)]
              ELSE /\ rpc' = [rpc EXCEPT ![r] = "awaiting"]
                   /\ UNCHANGED http
    /\ UNCHANGED <<reply, result>>
    /\ UNCHANGED <<lifeVars, healthVars, extractVars>>

\* A handler that answers 503 without calling the backend when the most
\* recent health check found it unreachable.
AnalyzeStart_health_gated(r, body) ==
    /\ phase = "serving" /\ rpc[r] = "idle"
    /\ request' = [request EXCEPT ![r] = body]
    /\ LET req == analysis_request(body)
       IN  IF body.endpoint = "screenshot" /\ ~query_valid(req.query)
           THEN /\ rpc' = [rpc EXCEPT ![r] = "done"]
                /\ http' = [http EXCEPT ![r] = Unhandled]
                /\ UNCHANGED sent
           ELSE IF ~query_valid(req.query)
           THEN /\ rpc' = [rpc EXCEPT ![r] = "done"]
                /\ http' = [http EXCEPT ![r] = RequestInvalid(req.query)]
                /\ UNCHANGED sent
           ELSE IF image_too_large(req.image)
           THEN /\ rpc' = [rpc EXCEPT ![r] = "done"]
                /\ http' = [http EXCEPT ![r] = HTTPException(413, IMAGE_TOO_LARGE)]
                /\ UNCHANGED sent
           ELSE IF last_health.status = "unhealthy"
           THEN /\ rpc' = [rpc EXCEPT ![r] = "done"]
                /\ http' = [http EXCEPT ![r] = HTTPException(503, SERVICE_UNAVAILABLE)]
                /\ UNCHANGED sent
           ELSE /\ rpc' = [rpc EXCEPT ![r] = "awaiting"]
                /\ sent' = [sent EXCEPT ![r] = Append(@,
                              generate_payload(model_for(req), system_prompt(req),
                                               images_for(req)))]
                /\ UNCHANGED http
    /\ UNCHANGED <<reply, result>>
    /\ UNCHANGED <<lifeVars, healthVars, extractVars>>

\* POST /api/analyze and POST /api/screenshot up to the await of line 328.
AnalyzeStart(r, body) ==
    /\ phase = "serving" /\ rpc[r] = "idle"
    /\ request' = [request EXCEPT ![r] = body]
    /\ LET req == analysis_request(body)
       IN  IF body.endpoint = "screenshot" /\ ~query_valid(req.query)
           THEN \* AnalysisRequest(...) of line 370 raises ValidationError
                /\ rpc' = [rpc EXCEPT ![r] = "done"]
                /\ http' = [http EXCEPT ![r] = Unhandled]
                /\ UNCHANGED sent
           ELSE IF ~query_valid(req.query)
           THEN \* the body of POST /api/analyze fails validation (line 60)
                /\ rpc' = [rpc EXCEPT ![r] = "done"]
                /\ http' = [http EXCEPT ![r] = RequestInvalid(req.query)]
                /\ UNCHANGED sent
           ELSE IF image_too_large(req.image)
           THEN /\ rpc' = [rpc EXCEPT ![r] = "done"]
                /\ http' = [http EXCEPT ![r] = HTTPException(413, IMAGE_TOO_LARGE)]
                /\ UNCHANGED sent
           ELSE /\ rpc' = [rpc EXCEPT ![r] = "awaiting"]
                /\ sent' = [sent EXCEPT ![r] = Append(@,
                              generate_payload(model_for(req), system_prompt(req),
                                               images_for(req)))]
                /\ UNCHANGED http
    /\ UNCHANGED <<reply, result>>
    /\ UNCHANGED <<lifeVars, healthVars, extractVars>>

\* A client that posts once more when its first attempt failed.
AnalyzeFinish_retry(r, rep) ==
    /\ rpc[r] = "awaiting"
    /\ reply' = [reply EXCEPT ![r] = rep]
    /\ IF ~generate_response(rep).success /\ Len(sent[r]) < 2
       THEN /\ sent' = [sent EXCEPT ![r] = Append(@, @[1])]
            /\ UNCHANGED <<rpc, result, http>>
       ELSE /\ rpc' = [rpc EXCEPT ![r] = "done"]
            /\ result' = [result EXCEPT ![r] = generate_response(rep)]
            /\ http' = [http EXCEPT ![r] =
                  analyze_finish(analysis_request(request[r]), generate_response(rep))]
            /\ UNCHANGED sent
    /\ UNCHANGED request
    /\ UNCHANGED <<lifeVars, healthVars, extractVars>>

\* A handler that keeps "the current request" in a module-level global, which
\* the latest request to arrive overwrites.
AnalyzeFinish_shared_request(r, rep) ==
    /\ rpc[r] = "awaiting"
    /\ rpc' = [rpc EXCEPT ![r] = "done"]
    /\ reply' = [reply EXCEPT ![r] = rep]
    /\ result' = [result EXCEPT ![r] = generate_response(rep)]
    /\ LET latest == CHOOSE o \in Reqs :
                        rpc[o] # "idle" /\ \A q \in Reqs : rpc[q] # "idle" => q <= o
       IN  http' = [http EXCEPT ![r] =
                  analyze_finish(analysis_request(request[latest]), generate_response(rep))]
    /\ UNCHANGED <<request, sent>>
    /\ UNCHANGED <<lifeVars, healthVars, extractVars>>

\* The backend answers the POST: generate_response returns and analyze_query
\* runs to its end.
AnalyzeFinish(r, rep) ==
    /\ rpc[r] = "awaiting"
    /\ rpc' = [rpc EXCEPT ![r] = "done"]
    /\ reply' = [reply EXCEPT ![r] = rep]
    /\ result' = [result EXCEPT ![r] = generate_response(rep)]
    /\ http' = [http EXCEPT ![r] =
                  analyze_finish(analysis_request(request[r]), generate_response(rep))]
    /\ UNCHANGED <<request, sent>>
    /\ UNCHANGED <<lifeVars, healthVars, extractVars>>

\* A lifespan that closes the client while requests are still being served.
Shutdown_while_serving ==
    /\ phase = "serving"
    /\ phase' = "stopped"
    /\ closes' = closes + 1
    /\ UNCHANGED <<healthVars, reqVars, extractVars>>

\* lifespan, lines 220-222: after serving has ended, close the client.
Shutdown ==
    /\ phase = "serving"
    /\ \A h \in HealthCalls : hpc[h] = "idle"
    /\ \A r \in Reqs : rpc[r] # "awaiting"
    /\ phase' = "stopped"
    /\ closes' = closes + 1
    /\ UNCHANGED <<healthVars, reqVars, extractVars>>

\* A call of extract_steps on its own.
ExtractCall ==
    /\ ~x_out.run
    /\ x_out' = [run |-> TRUE, ret |-> extract_steps(x_text)]
    /\ UNCHANGED <<x_text, lifeVars, healthVars, reqVars>>

(***************************************************************************)
(* Specifications.                                                         *)
(***************************************************************************)
InitRequests ==
    /\ rpc = [r \in Reqs |-> "idle"]
    /\ request = [r \in Reqs |-> NoRequest]
    /\ sent = [r \in Reqs |-> <<>>]
    /\ reply = [r \in Reqs |-> NoReply]
    /\ result = [r \in Reqs |-> NoResult]
    /\ http = [r \in Reqs |-> NoHttp]

InitHealthFlow ==
    /\ hpc = [h \in HealthCalls |-> "idle"]
    /\ hcaller = [h \in HealthCalls |-> "none"]
    /\ hreply = [h \in HealthCalls |-> NoReply]
    /\ health = [h \in HealthCalls |-> NoHealth]
    /\ hhttp = [h \in HealthCalls |-> NoHealthHttp]

\* What the check_health of lifespan (line 206) can have returned.
StartupHealths == {check_health(r) : r \in FewTagsReplies}

\* The process as constructed: module loaded, lifespan not yet entered.
Init ==
    /\ phase = "init" /\ closes = 0 /\ tags_gets = 0
    /\ InitHealthFlow /\ last_health = NoHealth /\ InitRequests
    /\ x_text = <<>> /\ x_out = NotRun

\* The whole service with NumReqs requests in flight at once.
Next ==
    \/ LifespanStartup
    \/ \E caller \in {"health", "models"} : HealthStart(caller)
    \/ \E h \in HealthCalls, r \in FewTagsReplies : HealthFinish(h, r)
    \/ \E h \in HealthCalls : HealthReturn(h)
    \/ \E r \in Reqs, body \in FewBodies : AnalyzeStart(r, body)
    \/ \E r \in Reqs, rep \in FewGenerateReplies : AnalyzeFinish(r, rep)
    \/ Shutdown

Spec == Init /\ [][Next]_vars

\* The process once lifespan has yielded: startup check done, serving.
InitServing ==
    /\ phase = "serving" /\ closes = 0 /\ tags_gets = 1
    /\ InitHealthFlow /\ last_health \in StartupHealths /\ InitRequests
    /\ x_text = <<>> /\ x_out = NotRun

\* One request, every body and every backend reply.
NextRun ==
    \/ \E body \in Bodies : AnalyzeStart(1, body)
    \/ \E rep \in GenerateReplies : AnalyzeFinish(1, rep)

SpecRun == InitServing /\ [][NextRun]_vars

PairGenerateReplies ==
    FewGenerateReplies
    \cup {HttpReply(404, UPSTREAM_BODY, NoJson), HttpReply(200, RAW_JSON, JsonArray)}

\* One POST /api/screenshot (request 1) beside one POST /api/analyze (request 2).
NextPair ==
    \/ \E body \in PairScreenshotBodies : AnalyzeStart(1, body)
    \/ \E body \in PairAnalyzeBodies : AnalyzeStart(2, body)
    \/ \E r \in {1, 2}, rep \in PairGenerateReplies : AnalyzeFinish(r, rep)

SpecPair == InitServing /\ [][NextPair]_vars

\* The replies call h is answered with in the health flow taken alone: every
\* reply when no other call is under way, a few when calls overlap.
OverlapTagsReplies ==
    FewTagsReplies
    \cup {HttpReply(404, RAW_HTML, NoJson),
          HttpReply(200, RAW_JSON, JsonModels(<<Named(LLAVA)>>))}

TagsRepliesFor(h) ==
    IF \A o \in HealthCalls \ {h} : hpc[o] = "idle" THEN TagsReplies ELSE OverlapTagsReplies

\* The health flow alone, overlapping calls included.
NextHealth ==
    \/ LifespanStartup
    \/ \E caller \in {"health", "models"} : HealthStart(caller)
    \/ \E h \in HealthCalls : \E r \in TagsRepliesFor(h) : HealthFinish(h, r)
    \/ \E h \in HealthCalls : HealthReturn(h)

SpecHealth == Init /\ [][NextHealth]_vars

\* extract_steps alone, on every text of at most MaxPieces fragments.
InitExtract ==
    /\ phase = "serving" /\ closes = 0 /\ tags_gets = 1
    /\ InitHealthFlow /\ last_health \in StartupHealths /\ InitRequests
    /\ x_text \in Texts(MaxPieces) /\ x_out = NotRun

NextExtract == ExtractCall

SpecExtract == InitExtract /\ [][NextExtract]_vars

(***************************************************************************)
(* Properties.                                                             *)
(***************************************************************************)
\* analyze_query has been entered for request r (a request with a query
\* AnalysisRequest refuses never gets there).
Entered(r) ==
    /\ rpc[r] # "idle"
    /\ query_valid(analysis_request(request[r]).query)

\* The request's image is longer than the ceiling.
OverCeiling(r) == request[r].image.some /\ request[r].image.len > max_image_size

\* C1: a request is answered 413 if and only if it carries an image whose
\* encoded length is strictly greater than the ceiling; an image exactly at
\* the ceiling, and a request without image, are never answered 413.
C1_ValidationFailedIffOverCeiling ==
    \A r \in Reqs :
        Entered(r) =>
            /\ (OverCeiling(r) => rpc[r] = "done")
            /\ (http[r].status = 413 <=> OverCeiling(r))

C1_Witness ==
    /\ http[1].status = 413
    /\ request[1].image = Image(max_image_size + 1)

\* An image exactly at the ceiling went through to the backend.
C1_WitnessAtCeiling ==
    /\ rpc[1] = "awaiting"
    /\ request[1].image = Image(max_image_size)

\* C2: a request answered 413 has issued no request to the backend: nothing
\* was POSTed for it and no backend reply was consumed for it.
C2_NoBackendCallBeforeValidation ==
    \A r \in Reqs :
        http[r].status = 413 =>
            /\ sent[r] = <<>>
            /\ reply[r] = NoReply
            /\ ~result[r].returned

C2_Witness ==
    \E r \in Reqs :
        /\ http[r].status = 413
        /\ \E o \in Reqs : o # r /\ rpc[o] = "awaiting"

\* C3: a request POSTs to /api/generate at most once; while it waits and
\* after generate_response has returned exactly one POST was made; and a
\* failed attempt has ended the request with an error response at once.
C3_NoRetry ==
    \A r \in Reqs :
        /\ Len(sent[r]) <= 1
        /\ (rpc[r] = "awaiting" => Len(sent[r]) = 1 /\ ~result[r].returned)
        /\ (result[r].returned => Len(sent[r]) = 1 /\ rpc[r] = "done")
        /\ (result[r].returned /\ ~result[r].success
                => /\ http[r].status = 500
                   /\ Len(http[r].detail) >= 1
                   /\ http[r].detail[1] = FAILED_TO_GENERATE[1])

C3_Witness ==
    \E r \in Reqs :
        /\ reply[r].kind = "connect"
        /\ rpc[r] = "done"
        /\ Len(sent[r]) = 1

\* The outcomes of a finished analyze_query, read off its HTTP response.
IsValidationFailed(h) == h.status = 413 /\ h.detail = IMAGE_TOO_LARGE /\ h.body = NoBody
IsBackendUnavailable(h) ==
    /\ h.status = 500 /\ h.body = NoBody
    /\ Len(h.detail) >= 1 /\ h.detail[1] = FAILED_TO_GENERATE[1]
IsInternal(h) == h.status = 500 /\ h.detail = INTERNAL_SERVER_ERROR /\ h.body = NoBody
IsStructuredResult(h) == h.status = 200 /\ h.detail = <<>> /\ h.body # NoBody

OutcomeCount(h) ==
    Cardinality({k \in {"vf", "bu", "int", "ok"} :
        \/ k = "vf" /\ IsValidationFailed(h)
        \/ k = "bu" /\ IsBackendUnavailable(h)
        \/ k = "int" /\ IsInternal(h)
        \/ k = "ok" /\ IsStructuredResult(h)})

\* generate returned Failure: no 2xx response with a parsable body came back.
GenerateFailed(rep) ==
    \/ rep.kind # "http"
    \/ rep.status < 200 \/ rep.status > 299
    \/ rep.json.t = "invalid"

\* The faults orchestration can hit after a Success: the parsed body is not
\* an object, or its "response" is not a string.
OrchestrationFault(rep) ==
    ~GenerateFailed(rep) /\ (rep.json.t # "object" \/ rep.json.response.t = "null")

\* C4: a finished analyze_query has exactly one of the four outcomes:
\* ValidationFailed when the image exceeds the ceiling, else
\* BackendUnavailable when generate failed, else Internal (the generic
\* message, nothing else) on an orchestration fault, else a result.
C4_ExactlyOneOutcome ==
    \A r \in Reqs :
        (Entered(r) /\ rpc[r] = "done") =>
            /\ OutcomeCount(http[r]) = 1
            /\ IF OverCeiling(r) THEN IsValidationFailed(http[r])
               ELSE IF GenerateFailed(reply[r]) THEN IsBackendUnavailable(http[r])
               ELSE IF OrchestrationFault(reply[r]) THEN IsInternal(http[r])
               ELSE IsStructuredResult(http[r])

C4_Witness ==
    /\ rpc[1] = "done"
    /\ reply[1].json = JsonArray
    /\ IsInternal(http[1])

\* A failed generate surfaced as BackendUnavailable, not as Internal.
C4_WitnessBackendUnavailable ==
    /\ rpc[1] = "done"
    /\ reply[1].kind = "timeout"
    /\ IsBackendUnavailable(http[1])

\* C5: when generate failed, the response to the caller contains nothing of
\* the raw failure text (the upstream body, the transport exception's text).
C5_SanitizedBackendError ==
    \A r \in Reqs :
        (result[r].returned /\ ~result[r].success /\ reply[r].text # <<>>) =>
            ~str_in(reply[r].text, http[r].detail)

\* C6: POST /api/analyze answers 413 for an image over the ceiling, 503 when
\* the backend is unreachable, 500 for another backend failure or an
\* internal fault.
C6_StatusCodes ==
    \A r \in Reqs :
        (Entered(r) /\ rpc[r] = "done") =>
            /\ (OverCeiling(r) => http[r].status = 413)
            /\ (~OverCeiling(r) /\ reply[r].kind = "connect" => http[r].status = 503)
            /\ (~OverCeiling(r) /\ reply[r].kind = "timeout" => http[r].status \in {500, 503})
            /\ (~OverCeiling(r) /\ reply[r].kind = "http"
                    /\ (GenerateFailed(reply[r]) \/ OrchestrationFault(reply[r]))
                  => http[r].status = 500)

\* The failures of a model listing that C7 names: no response, an error
\* status, a body that is not JSON, an entry without a name.
ListingFailed(rep) ==
    \/ rep.kind # "http"
    \/ rep.status < 200 \/ rep.status > 299
    \/ rep.json.t = "invalid"
    \/ \E i \in 1..Len(rep.json.models.entries) : rep.json.models.entries[i].t = "unnamed"

\* C7: check_health always returns a health dict, and after a failed listing
\* it is exactly: unhealthy, no models, no gemma, error set (to the
\* exception's text when the transport failed, naming the status when the
\* backend answered with an error status).
C7_CheckHealthNeverRaises ==
    \A h \in HealthCalls :
        hpc[h] = "done" =>
            /\ health[h].status \in {"healthy", "unhealthy"}
            /\ ListingFailed(hreply[h]) =>
                  /\ health[h].status = "unhealthy"
                  /\ health[h].models = <<>>
                  /\ health[h].gemma_available = FALSE
                  /\ health[h].error.some
                  /\ (hreply[h].kind # "http" => health[h].error.v = hreply[h].text)
                  /\ (hreply[h].kind = "http" /\ ~(hreply[h].status \in 200..299)
                        => str_in(<<ToString(hreply[h].status)>>, health[h].error.v))
            /\ (health[h].status = "healthy" => ~health[h].error.some)

C7_Witness ==
    \E h \in HealthCalls :
        /\ hpc[h] = "done"
        /\ hreply[h].kind = "http" /\ hreply[h].status = 200
        /\ hreply[h].json.models.entries = <<Named(GEMMA3_4B), Unnamed>>
        /\ health[h].status = "unhealthy"

\* name[i..i+5] spells gemma3, letter by letter.
Gemma3At(name, i) ==
    /\ i + 5 <= Len(name)
    /\ name[i] = "g" /\ name[i + 1] = "e" /\ name[i + 2] = "m"
    /\ name[i + 3] = "m" /\ name[i + 4] = "a" /\ name[i + 5] = "3"

\* C8: the readiness flag of a health dict is true exactly when one of its
\* model names contains gemma3, case-sensitively; so it is false when the
\* list is empty and when the backend is unhealthy.
C8_GemmaFlagIffSubstring ==
    \A h \in HealthCalls :
        hpc[h] = "done" =>
            /\ health[h].gemma_available <=>
                  \E k \in 1..Len(health[h].models) :
                      \E i \in 1..Len(health[h].models[k]) :
                          Gemma3At(health[h].models[k], i)
            /\ (health[h].models = <<>> => ~health[h].gemma_available)
            /\ (health[h].status = "unhealthy" => ~health[h].gemma_available)

C8_Witness ==
    \E h \in HealthCalls :
        /\ hpc[h] = "done"
        /\ health[h].models = <<LLAVA, <<"x", "g", "e", "m", "m", "a", "3">>>>
        /\ health[h].gemma_available

\* A listing with only a capitalised Gemma3 is not ready.
C8_WitnessCase ==
    \E h \in HealthCalls :
        /\ hpc[h] = "done"
        /\ health[h].models = << <<"G", "e", "m", "m", "a", "3">> >>
        /\ ~health[h].gemma_available

\* C9: generate_response always returns a dict; it reports success exactly
\* when a 2xx response with a parsable body came back; and after an error
\* status its error text includes the status code and the response body.
C9_GenerateNeverRaises ==
    \A r \in Reqs :
        reply[r] # NoReply =>
            /\ result[r].returned
            /\ result[r].success <=>
                  /\ reply[r].kind = "http"
                  /\ reply[r].status \in 200..299
                  /\ reply[r].json.t # "invalid"
            /\ (result[r].success => result[r].data = reply[r].json)
            /\ (reply[r].kind = "http" /\ reply[r].status \notin 200..299 =>
                  /\ str_in(<<ToString(reply[r].status)>>, result[r].error)
                  /\ str_in(reply[r].text, result[r].error))

C9_Witness ==
    /\ reply[1] = HttpReply(404, UPSTREAM_BODY, NoJson)
    /\ result[1].returned /\ ~result[1].success
    /\ result[1].error = <<"Ollama error: ", "404", " ">> \o UPSTREAM_BODY

(***************************************************************************)
(* The reference algorithm of C10, written character by character.         *)
(***************************************************************************)
RECURSIVE RefLines(_, _)
RefLines(text, cur) ==
    IF text = <<>> THEN <<cur>>
    ELSE IF Head(text) = "\n" THEN <<cur>> \o RefLines(Tail(text), <<>>)
    ELSE RefLines(Tail(text), Append(cur, Head(text)))

RECURSIVE RefLTrim(_)
RefLTrim(s) ==
    IF s = <<>> THEN s
    ELSE IF Head(s) \in Whitespace THEN RefLTrim(Tail(s)) ELSE s

RECURSIVE RefRTrim(_)
RefRTrim(s) ==
    IF s = <<>> THEN s
    ELSE IF s[Len(s)] \in Whitespace THEN RefRTrim(SubSeq(s, 1, Len(s) - 1)) ELSE s

RefTrim(s) == RefRTrim(RefLTrim(s))

RECURSIVE RefDropThrough(_, _)
RefDropThrough(s, ch) ==
    IF s = <<>> THEN s
    ELSE IF Head(s) = ch THEN Tail(s) ELSE RefDropThrough(Tail(s), ch)

\* The text after the first ch, if any; else all of s.
RefAfterFirst(s, ch) == IF ch \in Range(s) THEN RefDropThrough(s, ch) ELSE s

RefStepLed(line) ==
    /\ Len(line) >= 4
    /\ line[1] \in {"s", "S"} /\ line[2] \in {"t", "T"}
    /\ line[3] \in {"e", "E"} /\ line[4] \in {"p", "P"}

\* D is the set of characters that count as digits.
RefQualifies(line, D) == line # <<>> /\ (line[1] \in D \/ RefStepLed(line))

RefClean(line, D) ==
    IF line[1] \in D
    THEN RefTrim(RefAfterFirst(RefTrim(RefAfterFirst(line, ".")), ")"))
    ELSE RefTrim(RefAfterFirst(line, ":"))

RefNonEmpty(s) == s # <<>>

RefExtract(text, D) ==
    LET lines == RefLines(text, <<>>)
        cleaned == [i \in 1..Len(lines) |->
                      LET line == RefTrim(lines[i])
                      IN  IF RefQualifies(line, D) THEN RefClean(line, D) ELSE <<>>]
        steps == SelectSeq(cleaned, RefNonEmpty)
    IN  IF steps = <<>> THEN None ELSE Some(steps)

\* The three examples of the specification.
C10_Examples ==
    /\ extract_steps(TEXT_NUMBERED) = Some(<<<<"O", "p", "e", "n", " ", "a", "p", "p">>,
                                             <<"T", "a", "p", " ", "i", "c", "o", "n">>>>)
    /\ extract_steps(TEXT_STEPS) = Some(<<<<"D", "o", " ", "X">>, <<"D", "o", " ", "Y">>>>)
    /\ extract_steps(TEXT_SENTENCE) = None

\* C10 as stated: extract_steps equals the reference algorithm in which a
\* line is digit-led when its first character is a decimal digit.
C10_EqualsReferenceDecimalDigit ==
    /\ C10_Examples
    /\ x_out.run => x_out.ret = RefExtract(x_text, DecimalDigits)

\* C10 as amended: extract_steps equals the reference algorithm in which a
\* line is digit-led when str.isdigit() holds of its first character: a
\* decimal digit or another Unicode digit such as a superscript or circled
\* digit.
C10_EqualsReferenceIsDigit ==
    /\ C10_Examples
    /\ x_out.run => x_out.ret = RefExtract(x_text, DecimalDigits \cup OtherDigits)

C10_Witness ==
    /\ x_out.run
    /\ x_text = <<"sup2", ".", ")", "a">>
    /\ x_out.ret = Some(<< <<"a">> >>)

\* A line led by "Step", cleaned after its colon.
C10_WitnessStep ==
    /\ x_out.run
    /\ x_text = <<"S", "t", "e", "p", " ", ":", "a">>
    /\ x_out.ret = Some(<< <<"a">> >>)


\* What str.isdigit() accepts.
RefAllDigits == DecimalDigits \cup OtherDigits

RefTrimmedLine(text, i) == RefTrim(RefLines(text, <<>>)[i])

\* The lines of a text that yield a step: qualifying, D being the characters
\* that count as digits, with a non-empty cleaned form.
RefStepLineIndexes(text, D) ==
    {i \in 1..Len(RefLines(text, <<>>)) :
        /\ RefQualifies(RefTrimmedLine(text, i), D)
        /\ RefClean(RefTrimmedLine(text, i), D) # <<>>}

\* extract_steps returns None or a non-empty list, never an empty list; None
\* exactly when no qualifying line has a non-empty cleaned form; every step
\* is non-empty without leading or trailing whitespace; and the steps come,
\* in order, from distinct qualifying lines of the text.
RefAbsentOrNonEmptyOrdered(D) ==
    x_out.run =>
        LET steps == x_out.ret.v
            from == RefStepLineIndexes(x_text, D)
        IN  /\ x_out.ret.some => Len(steps) >= 1
            /\ ~x_out.ret.some => steps = <<>>
            /\ ~x_out.ret.some <=> from = {}
            /\ \A k \in 1..Len(steps) :
                  /\ steps[k] # <<>>
                  /\ steps[k][1] \notin Whitespace
                  /\ steps[k][Len(steps[k])] \notin Whitespace
            /\ Len(steps) <= Cardinality(from)
            /\ \E f \in [1..Len(steps) -> from] :
                  /\ \A k \in 1..Len(steps) :
                        steps[k] = RefClean(RefTrimmedLine(x_text, f[k]), D)
                  /\ \A k \in 1..(Len(steps) - 1) : f[k] < f[k + 1]

\* C11 as stated: absent or non-empty, absent exactly when no qualifying line
\* has a non-empty cleaned form, steps trimmed and non-empty, in line order,
\* at most one per line and none from a non-qualifying line, a line being
\* digit-led when its first character is a decimal digit.
C11_AbsentOrNonEmptyOrderedDecimalDigit == RefAbsentOrNonEmptyOrdered(DecimalDigits)

\* C11 as amended: the same, a line being digit-led when str.isdigit() holds
\* of its first character (a decimal digit or another Unicode digit).
C11_AbsentOrNonEmptyOrdered == RefAbsentOrNonEmptyOrdered(RefAllDigits)

\* A line led by a superscript digit yields a step, between two lines that
\* yield none.
C11_WitnessOtherDigit ==
    /\ x_out.run
    /\ x_text = <<"a", "\n", "sup2", "\n">>
    /\ x_out.ret = Some(<< <<"sup2">> >>)

\* Two steps from the first and third line, the second line not qualifying.
C11_Witness ==
    /\ x_out.run
    /\ x_text = <<"1", "\n", "\n", "s", "t", "e", "p">>
    /\ x_out.ret = Some(<< <<"1">>, <<"s", "t", "e", "p">> >>)

\* A qualifying line whose cleaned form is empty gives None, not an empty list.
C11_WitnessAbsent ==
    /\ x_out.run
    /\ x_text = <<"1", ".", "\n", "a">>
    /\ x_out.ret = None


\* The number of leading decimal digits of a line.
RECURSIVE RefLeadingDigits(_)
RefLeadingDigits(line) ==
    IF line # <<>> /\ Head(line) \in DecimalDigits
    THEN 1 + RefLeadingDigits(Tail(line))
    ELSE 0

\* The line is <digits>"."<body> or <digits>")"<body>.
RefHasMarker(line) ==
    LET n == RefLeadingDigits(line)
    IN  n >= 1 /\ Len(line) > n /\ line[n + 1] \in {".", ")"}

RefBody(line) == SubSeq(line, RefLeadingDigits(line) + 2, Len(line))

\* C12: of a one-line text <digits>.<body> or <digits>)<body>, extract_steps
\* removes the marker only: the step is the trimmed body in full, also when
\* the body has "." or ")" in it (and there is no step when the body is blank).
C12_OnlyMarkerStripped ==
    (x_out.run /\ "\n" \notin Range(x_text) /\ RefHasMarker(RefTrim(x_text))) =>
        LET body == RefTrim(RefBody(RefTrim(x_text)))
        IN  x_out.ret = IF body = <<>> THEN None ELSE Some(<<body>>)


\* What request r itself asked for.
OwnQuery(r) == IF request[r].query.some THEN request[r].query.v ELSE DEFAULT_QUERY
OwnContext(r) == IF request[r].context.some THEN request[r].context.v ELSE GENERAL
OwnModel(r) ==
    IF request[r].model.some /\ request[r].model.v # <<>>
    THEN request[r].model.v ELSE default_model
OwnText(r) == reply[r].json.response.s

\* C13: with several requests in flight, in any interleaving, what was
\* POSTed for a request comes from its own body, and its result (guidance,
\* steps, model_used, context) from its own body and the reply to its own POST.
C13_NoCrossTalk ==
    \A r \in Reqs :
        /\ sent[r] # <<>> =>
              /\ sent[r][1].model = OwnModel(r)
              /\ sent[r][1].prompt =
                    PROMPT_HEAD \o OwnContext(r) \o <<"\n">>
                      \o (IF request[r].image.some /\ request[r].image.len > 0
                          THEN SCREENSHOT_SENTENCE ELSE <<>>)
                      \o PROMPT_QUESTION \o OwnQuery(r) \o PROMPT_TAIL
        /\ (rpc[r] = "done" /\ http[r].status = 200) =>
              /\ http[r].body.guidance = OwnText(r)
              /\ http[r].body.steps = RefExtract(OwnText(r), RefAllDigits)
              /\ http[r].body.model_used = OwnModel(r)
              /\ http[r].body.context = OwnContext(r)

\* Two requests with different bodies, both answered, each with its own text.
C13_Witness ==
    /\ rpc[1] = "done" /\ rpc[2] = "done"
    /\ request[1] = AnalyzeBody(Q2, Some(WHATSAPP), Image(max_image_size), Some(LLAVA))
    /\ request[2] = AnalyzeBody(Q1, None, NoImage, None)
    /\ http[1].body.guidance = TEXT_STEPS
    /\ http[2].body.guidance = TEXT_NUMBERED
    /\ http[1].body.model_used = LLAVA /\ http[2].body.model_used = default_model

\* The parts of C14 that do not depend on how "present" is read.
C14_Assembly(r) ==
    /\ http[r].body.model_used = sent[r][1].model
    /\ Len(sent[r]) = 1
    /\ sent[r][1].stream = FALSE
    /\ http[r].body.guidance = OwnText(r)
    /\ http[r].body.steps = RefExtract(http[r].body.guidance, RefAllDigits)
    /\ http[r].body.confidence = "0.9"
    /\ http[r].body.context = OwnContext(r)

\* C14 as stated: on a successful run the model sent is the override if the
\* request has one, else the default; the image is attached, as a one-element
\* list, and the screenshot sentence is in the prompt, iff the request has an
\* image; guidance is the backend text, steps its extraction, confidence 0.9,
\* context the request's.
C14_ResultAssembledIfPresent ==
    \A r \in Reqs :
        (rpc[r] = "done" /\ http[r].status = 200) =>
            /\ C14_Assembly(r)
            /\ sent[r][1].model =
                  IF request[r].model.some THEN request[r].model.v ELSE default_model
            /\ sent[r][1].images =
                  IF request[r].image.some THEN Some(<<request[r].image>>) ELSE None
            /\ str_in(SCREENSHOT_SENTENCE, sent[r][1].prompt) <=> request[r].image.some

\* C14 as amended: the same, an empty string counting as no override and as
\* no image.
C14_ResultAssembledIfNonEmpty ==
    \A r \in Reqs :
        (rpc[r] = "done" /\ http[r].status = 200) =>
            /\ C14_Assembly(r)
            /\ sent[r][1].model = OwnModel(r)
            /\ sent[r][1].images =
                  IF request[r].image.some /\ request[r].image.len > 0
                  THEN Some(<<request[r].image>>) ELSE None
            /\ str_in(SCREENSHOT_SENTENCE, sent[r][1].prompt)
                  <=> (request[r].image.some /\ request[r].image.len > 0)

\* An empty override and an empty image: the default model, nothing attached.
C14_Witness ==
    /\ rpc[1] = "done" /\ http[1].status = 200
    /\ request[1] = AnalyzeBody(Q1, None, Image(0), Some(<<>>))
    /\ sent[1][1].model = default_model
    /\ sent[1][1].images = None
    /\ http[1].body.steps.some

\* An override and an image at the ceiling: both sent.
C14_WitnessOverride ==
    /\ rpc[1] = "done" /\ http[1].status = 200
    /\ request[1].model = Some(LLAVA)
    /\ sent[1][1].images = Some(<<Image(max_image_size)>>)
    /\ http[1].body.model_used = LLAVA


\* C15: GET /api/models answers 503 exactly when its health check is not
\* healthy, and else returns that check's model list; GET /health always
\* answers 200 with server_status healthy and the status, model list and
\* readiness flag of its health check, whatever the backend did.
C15_ModelsAndHealthEndpoints ==
    \A h \in HealthCalls :
        hpc[h] = "done" =>
            /\ hcaller[h] = "models" =>
                  /\ hhttp[h].status = 503 <=> health[h].status # "healthy"
                  /\ hhttp[h].status # 503 =>
                        /\ hhttp[h].status = 200
                        /\ hhttp[h].models = health[h].models
                        /\ hhttp[h].gemma_available = health[h].gemma_available
            /\ hcaller[h] = "health" =>
                  /\ hhttp[h].status = 200
                  /\ hhttp[h].server_status = "healthy"
                  /\ hhttp[h].ollama_status = health[h].status
                  /\ hhttp[h].models = health[h].models
                  /\ hhttp[h].gemma_available = health[h].gemma_available


\* Request a (POST /api/screenshot) and request b (POST /api/analyze, no model
\* override) carry the same query, context and image, defaults applied.
SameAnalysis(a, b) ==
    /\ request[a].endpoint = "screenshot" /\ request[b].endpoint = "analyze"
    /\ request[b].model = None
    /\ OwnQuery(a) = OwnQuery(b)
    /\ OwnContext(a) = OwnContext(b)
    /\ request[a].image = request[b].image

\* The two requests are both answered and the outcome of the one equals that
\* of the other: same payload POSTed, same HTTP response.
SameOutcome(a, b) == sent[a] = sent[b] /\ http[a] = http[b]

\* C16: a POST /api/screenshot ends as the POST /api/analyze with the same
\* query, context and image and no model override does, given the same
\* backend reply: same status, same error or same result.
C16_ScreenshotDelegates ==
    (rpc[1] = "done" /\ rpc[2] = "done" /\ SameAnalysis(1, 2) /\ reply[1] = reply[2])
        => SameOutcome(1, 2)

\* The same with the queries AnalysisRequest refuses left out.
C16_ScreenshotDelegatesValidQuery ==
    (rpc[1] = "done" /\ rpc[2] = "done" /\ SameAnalysis(1, 2) /\ reply[1] = reply[2]
        /\ query_valid(OwnQuery(1)))
        => SameOutcome(1, 2)


\* A health query begins in this step.
HealthBegins == \E h \in HealthCalls : hpc[h] # "waiting" /\ hpc'[h] = "waiting"

\* Request r enters analyze_query in this step with an image within the limit.
RunBegins(r) == rpc[r] = "idle" /\ Entered(r)' /\ ~OverCeiling(r)'

\* C17: the health flow keeps no state and does not feed the generation
\* flow.  The dict a health query hands to its caller is the one computed
\* from the reply to its own GET /api/tags; every health query issues one
\* more GET /api/tags; and a request that enters analyze_query within the
\* size limit POSTs to /api/generate whatever the most recent health check
\* returned, an unreachable backend included.
C17_HealthFlowIndependent ==
    /\ [](\A h \in HealthCalls : hpc[h] = "done" => health[h] = check_health(hreply[h]))
    /\ [][HealthBegins => tags_gets' = tags_gets + 1]_vars
    /\ [][\A r \in Reqs : RunBegins(r) =>
             /\ rpc'[r] = "awaiting"
             /\ Len(sent'[r]) = 1
             /\ UNCHANGED healthVars]_vars

\* The only health check so far is that of startup, it found the backend
\* unreachable, and a request has POSTed to /api/generate all the same.
C17_Witness ==
    /\ tags_gets = 1 /\ \A h \in HealthCalls : hpc[h] = "idle"
    /\ last_health.status = "unhealthy"
    /\ \E r \in Reqs : rpc[r] = "awaiting" /\ Len(sent[r]) = 1

\* Two health queries overlap and are answered out of order: GET /health
\* began first, the query that began while it waited has been answered and
\* has returned, and GET /health is then answered healthy from its own reply.
C17_WitnessOverlap ==
    \E a, b \in HealthCalls :
        /\ a < b /\ b <= tags_gets
        /\ hcaller[a] = "health" /\ hpc[a] = "done"
        /\ hpc[b] = "idle"
        /\ hhttp[a].status = 200 /\ hhttp[a].ollama_status = "healthy"
        /\ last_health = health[a]

\* Two calls of check_health wait for the backend at once.
C17_WitnessTwoWaiting ==
    \E a, b \in HealthCalls :
        /\ a # b /\ hpc[a] = "waiting" /\ hpc[b] = "waiting"
        /\ hcaller[a] = "health" /\ hcaller[b] = "models"

\* Some endpoint has been called: a request was taken up or a health query
\* of GET /health or GET /api/models is or was running.
Serving ==
    \/ \E r \in Reqs : rpc[r] # "idle"
    \/ \E h \in HealthCalls : hcaller[h] \in {"health", "models"}

\* Work of an endpoint is in flight at the backend.
InFlight ==
    \/ \E r \in Reqs : rpc[r] = "awaiting"
    \/ \E h \in HealthCalls : hpc[h] = "waiting"

\* The check_health of startup returns in this step.
StartupCheckReturns == hcaller[1] = "lifespan" /\ hpc[1] = "waiting" /\ hpc'[1] = "done"

\* C18: no endpoint runs before the health check of startup has returned;
\* when it returns the server goes on to serve, whether it found the backend
\* healthy or unreachable; and close() is called once only, in the step that
\* ends serving, with nothing in flight, never during startup or serving.
C18_LifecycleOrder ==
    /\ [](Serving => phase \in {"serving", "stopped"} /\ last_health # NoHealth)
    /\ [](phase \in {"init", "starting", "serving"} => closes = 0)
    /\ [](phase = "stopped" => closes = 1 /\ ~InFlight)
    /\ [][StartupCheckReturns =>
             /\ phase = "starting" /\ phase' = "serving"
             /\ health'[1].status \in {"healthy", "unhealthy"}]_vars
    /\ [][closes' # closes =>
             /\ closes' = closes + 1
             /\ phase = "serving" /\ phase' = "stopped"
             /\ ~InFlight]_vars

\* The startup check, the only one made, found the backend unreachable; a
\* request was served all the same; the process then stopped and closed the
\* client once.
C18_Witness ==
    /\ tags_gets = 1 /\ last_health.status = "unhealthy"
    /\ \E r \in Reqs : http[r].status = 200
    /\ phase = "stopped" /\ closes = 1

====
